---------------------------- MODULE Spec2Model ----------------------------
(***************************************************************************)
(* A model of qrstr (src/qr.go): the header text wrapper `wrap`, the       *)
(* monospace renderer `text`, the HTML renderer `html`, the terminal       *)
(* decorator built in NewEncoder, and the Encoder facade.                  *)
(*                                                                         *)
(* Strings are sequences of one-character strings.  The three block runes  *)
(* are written with ASCII stand-ins (upper "^", lower "_", whole "#");     *)
(* blank is the space character, as in the source.  An ANSI escape         *)
(* sequence is one element of a string.                                    *)
(***************************************************************************)
EXTENDS Integers, Sequences, FiniteSets, TLC

\* ------------------------------------------------------------------ bounds
\* widths handed to wrap when it is exercised on its own: 1..MaxWidth
MaxWidth == 4
\* bytes of a header list given to wrap on its own (each line counts its
\* characters plus one)
MaxWrapBytes == 6
\* bytes of the header list given to Encode (same measure)
MaxHdrBytes == 3
\* pixels of the grid the generator returns (dx * dy)
MaxPixels == 4
\* output lines after which the model stops following wrap
MaxOut == 8

\* --------------------------------------------------------------- constants
blank == " "
upper == "^"
lower == "_"
whole == "#"
NL == "\n"

TextDarkMode == 0
TextLightMode == 1
HTMLMode == 2
TerminalMode == 3

ErrorCorrection7Percent == 0
ErrorCorrection30Percent == 3

lightMode == <<blank, upper, lower, whole>>
darkMode == <<whole, lower, upper, blank>>

\* *runeCol: a pointer to one of the two package-level palettes, or nil
Palette(rc) == IF rc = "lightMode" THEN lightMode ELSE darkMode

\* ----------------------------------------------------------------- strings
Repeat(c, n) == [k \in 1..n |-> c]

\* strings.HasSuffix
HasSuffix(str, suf) ==
    /\ Len(str) >= Len(suf)
    /\ SubSeq(str, Len(str) - Len(suf) + 1, Len(str)) = suf

\* TrimSuffix that never trims
TrimSuffixNone(str, suf) == str

\* strings.TrimSuffix
TrimSuffix(str, suf) ==
    IF HasSuffix(str, suf) THEN SubSeq(str, 1, Len(str) - Len(suf)) ELSE str

RECURSIVE SplitAcc(_, _, _, _, _)
SplitAcc(str, sep, k, cur, acc) ==
    IF k > Len(str) THEN Append(acc, cur)
    ELSE IF str[k] = sep THEN SplitAcc(str, sep, k + 1, <<>>, Append(acc, cur))
    ELSE SplitAcc(str, sep, k + 1, Append(cur, str[k]), acc)

\* strings.Split(l, " "): always at least one element; consecutive
\* separators give empty elements
Split(str, sep) == SplitAcc(str, sep, 1, <<>>, <<>>)

\* strings.ReplaceAll(str, old, new) for a one-character old
RECURSIVE ReplaceAll(_, _, _)
ReplaceAll(str, old, new) ==
    IF str = <<>> THEN <<>>
    ELSE (IF Head(str) = old THEN new ELSE <<Head(str)>>)
             \o ReplaceAll(Tail(str), old, new)

\* pad that is one rune too long
padLong(n, r) == Repeat(r, n + 1)

\* pad(n, r): n copies of r; a negative n counts as 1
pad(n, r) ==
    IF n = 0 THEN <<>>
    ELSE IF n < 0 THEN Repeat(r, 1)
    ELSE Repeat(r, n)

\* ------------------------------------------------------------------ inputs
\* all strings over alphabet A of length at most n
RECURSIVE StringsUpTo(_, _)
StringsUpTo(A, n) ==
    IF n = 0 THEN {<<>>}
    ELSE LET S == StringsUpTo(A, n - 1)
         IN  S \cup {Append(x, c) : x \in S, c \in A}

\* all lists of strings over A whose lines, each counted with one extra
\* byte, take at most n bytes
RECURSIVE ListsUpTo(_, _)
ListsUpTo(A, n) ==
    IF n = 0 THEN {<<>>}
    ELSE {<<>>} \cup
         UNION {{<<l>> \o rest : rest \in ListsUpTo(A, n - 1 - Len(l))}
                    : l \in StringsUpTo(A, n - 1)}

WrapAlphabet == {"a", "b", " "}
HdrAlphabet == {"a", " "}
Widths == 1..MaxWidth

VARIABLES
    pc,       \* where the program is
    width,    \* wrap: the argument w as passed
    s,        \* wrap: the input lines
    w,        \* wrap: w after the decrement
    li,       \* wrap: index (1-based) of the input line of the outer loop
    lines,    \* wrap: the output lines
    line,     \* wrap: the accumulator
    b,        \* wrap: the words of the current line
    i,        \* wrap: index (1-based) of the current word
    j,        \* wrap: position (0-based) in the word being hard-split
    encoderType,          \* NewEncoder: its first argument
    errorCorrectionLevel, \* NewEncoder: its second argument
    q,        \* the Encoder value
    encoder,  \* the *Encoder the caller holds: "nil" or "&q"
    newErr,   \* the error NewEncoder returned ("" is nil)
    origin,   \* how the Encoder came to be: "none", "factory" or "literal"
    code,     \* Encode: the image the generator returned
    headers,  \* Encode: the header lines
    output,   \* the string being built, then the string returned
    err,      \* the error Encode returned ("" is nil)
    prefix,   \* text: prefix
    suffix,   \* text: suffix
    y,        \* text: the row of the body loop
    reads,    \* the pixels read through At during this call
    termS     \* the terminal closure's s: what text returned to it

wrapVars == <<width, s, w, li, lines, line, b, i, j>>
encVars == <<encoderType, errorCorrectionLevel, q, encoder, newErr, origin>>
callVars == <<code, headers, output, err, prefix, suffix, y, reads, termS>>
progVars == <<encVars, callVars>>
vars == <<pc, wrapVars, progVars>>

\* ------------------------------------------------------------------- wrap
\* wrap without the decrement
WrapWidthSame(n) == n

\* the decrement at the head of wrap
WrapWidth(n) == n - 1

\* entry: locals are zero-valued, w is decremented
WrapEnter ==
    /\ pc = "wrap"
    /\ w' = WrapWidth(width)
    /\ lines' = <<>>
    /\ line' = <<>>
    /\ b' = <<>>
    /\ i' = 0
    /\ j' = 0
    /\ li' = 1
    /\ pc' = "wrapLine"
    /\ UNCHANGED <<width, s>>
    /\ UNCHANGED progVars

\* one step of `for _, l := range s`: a short line goes out unchanged, any
\* other line is split into words
WrapLine ==
    /\ pc = "wrapLine"
    /\ li <= Len(s)
    /\ LET l == s[li]
       IN  IF Len(l) < w
           THEN /\ lines' = Append(lines, l)
                /\ li' = li + 1
                /\ UNCHANGED <<pc, b, i>>
           ELSE /\ b' = Split(l, " ")
                /\ i' = 1
                /\ pc' = "wrapWord"
                /\ UNCHANGED <<lines, li>>
    /\ UNCHANGED <<width, s, w, line, j>>
    /\ UNCHANGED progVars

\* the position after the body of `for i, v = range b` ran for word i
AfterWord ==
    IF i = Len(b)
    THEN /\ li' = li + 1
         /\ pc' = "wrapLine"
         /\ i' = i
    ELSE /\ i' = i + 1
         /\ pc' = "wrapWord"
         /\ li' = li

\* the body of `for i, v = range b` for a word that is not hard-split
WrapWord ==
    /\ pc = "wrapWord"
    /\ LET v == b[i]
       IN  /\ ~(Len(v) > w)
           /\ IF Len(line) + Len(v) < w
              THEN IF i = Len(b)
                   THEN /\ lines' = Append(lines, TrimSuffix(line \o v \o <<" ">>, <<" ">>))
                        /\ line' = <<>>
                   ELSE /\ line' = line \o v \o <<" ">>
                        /\ lines' = lines
              ELSE /\ lines' = Append(lines, TrimSuffix(line, <<" ">>))
                   /\ line' = <<>>
    /\ AfterWord
    /\ UNCHANGED <<width, s, w, b, j>>
    /\ UNCHANGED progVars

\* a word longer than w enters the hard-split loop at j = 0
WrapSplitEnter ==
    /\ pc = "wrapWord"
    /\ Len(b[i]) > w
    /\ j' = 0
    /\ pc' = "wrapSplit"
    /\ UNCHANGED <<width, s, w, li, lines, line, b, i>>
    /\ UNCHANGED progVars

\* one iteration of `for j = 0; j < len(v); j += w`
WrapSplit ==
    /\ pc = "wrapSplit"
    /\ j < Len(b[i])
    /\ Len(lines) < MaxOut
    /\ LET v == b[i]
       IN  IF j + w < Len(v)
           THEN /\ lines' = Append(lines, SubSeq(v, j + 1, j + w) \o <<"-">>)
                /\ line' = line
           ELSE /\ line' = SubSeq(v, j + 1, Len(v)) \o <<" ">>
                /\ lines' = lines
    /\ j' = j + w
    /\ UNCHANGED <<pc, width, s, w, li, b, i>>
    /\ UNCHANGED progVars

\* the hard-split loop ends and `continue` goes to the next word
WrapSplitExit ==
    /\ pc = "wrapSplit"
    /\ ~(j < Len(b[i]))
    /\ AfterWord
    /\ UNCHANGED <<width, s, w, lines, line, b, j>>
    /\ UNCHANGED progVars

\* `return slices.Clip(lines)`
WrapReturn ==
    /\ pc = "wrapLine"
    /\ li > Len(s)
    /\ pc' = "wrapRet"
    /\ UNCHANGED wrapVars
    /\ UNCHANGED progVars

\* ---------------------------------------------------------------- palette
\* the index with the two bits exchanged
RuneIndexSwapped(top, bot) ==
    (IF top = "Black" THEN 2 ELSE 0) + (IF bot = "Black" THEN 1 ELSE 0)

\* the index getRune computes from the two colours
RuneIndex(top, bot) ==
    (IF top = "Black" THEN 1 ELSE 0) + (IF bot = "Black" THEN 2 ELSE 0)

getRune(rc, top, bot) == Palette(rc)[RuneIndex(top, bot) + 1]

\* ------------------------------------------------------------------ images
Colors == {"Black", "White"}

Dims == {d \in (1..MaxPixels) \X (1..MaxPixels) : d[1] * d[2] <= MaxPixels}

\* the images the generator can return: every bilevel grid of these sizes
Grids ==
    UNION {{[dx |-> d[1], dy |-> d[2], px |-> f] :
               f \in [(0..(d[1] - 1)) \X (0..(d[2] - 1)) -> Colors]} : d \in Dims}

NoCode == [dx |-> 0, dy |-> 0, px |-> [p \in {} |-> "White"]]

InBounds(x, yy) == x >= 0 /\ x < code.dx /\ yy >= 0 /\ yy < code.dy

\* (*code).At(x, y); the generator's grid has no pixel outside its bounds
At(x, yy) == IF InBounds(x, yy) THEN code.px[<<x, yy>>] ELSE "White"

HeaderLists == ListsUpTo(HdrAlphabet, MaxHdrBytes)

\* ----------------------------------------------------------------- Encoder
EncoderTypes == -1..4
Levels == -1..4

ZeroEncoder == [strFunc |-> "nil", rc |-> "nil", errCorr |-> 0]

\* the switch of NewEncoder: the render function and the palette per type
StrFuncOf(t) ==
    IF t = TextDarkMode THEN "text"
    ELSE IF t = TextLightMode THEN "text"
    ELSE IF t = HTMLMode THEN "html"
    ELSE IF t = TerminalMode THEN "terminal"
    ELSE "nil"

RcOf(t) ==
    IF t = TextDarkMode THEN "darkMode"
    ELSE IF t = TextLightMode THEN "lightMode"
    ELSE IF t = TerminalMode THEN "darkMode"
    ELSE "nil"

\* a level check that lets 4 through
LevelValidLoose(lv) == ~(lv < 0 \/ lv > 4)

\* the negation of `errorCorrectionLevel < 0 || errorCorrectionLevel > 3`
LevelValid(lv) ==
    ~(lv < ErrorCorrection7Percent \/ lv > ErrorCorrection30Percent)

NewEncoder ==
    /\ pc = "start"
    /\ \E t \in EncoderTypes, lv \in Levels :
          /\ encoderType' = t
          /\ errorCorrectionLevel' = lv
          /\ IF StrFuncOf(t) = "nil"
             THEN /\ newErr' = "invalid encoder type"
                  /\ encoder' = "nil"
                  /\ q' = q
                  /\ pc' = "failed"
             ELSE IF ~LevelValid(lv)
             THEN /\ newErr' = "invalid error correction level"
                  /\ encoder' = "nil"
                  /\ q' = [strFunc |-> StrFuncOf(t), rc |-> RcOf(t), errCorr |-> 0]
                  /\ pc' = "failed"
             ELSE /\ newErr' = ""
                  /\ encoder' = "&q"
                  /\ q' = [strFunc |-> StrFuncOf(t), rc |-> RcOf(t), errCorr |-> lv]
                  /\ pc' = "ready"
    /\ origin' = "factory"
    /\ UNCHANGED <<wrapVars, callVars>>

\* an Encoder made without the factory: the zero value of the struct
LiteralEncoder ==
    /\ pc = "start"
    /\ q' = ZeroEncoder
    /\ encoder' = "&q"
    /\ origin' = "literal"
    /\ pc' = "ready"
    /\ UNCHANGED <<encoderType, errorCorrectionLevel, newErr>>
    /\ UNCHANGED <<wrapVars, callVars>>

\* the state of one call's locals before the call
FreshCall ==
    /\ width' = 0 /\ s' = <<>> /\ w' = 0 /\ li' = 0 /\ lines' = <<>>
    /\ line' = <<>> /\ b' = <<>> /\ i' = 0 /\ j' = 0
    /\ prefix' = <<>> /\ suffix' = <<>> /\ y' = 0 /\ reads' = {}
    /\ termS' = <<>> /\ output' = <<>>

\* Encode up to the call of strFunc; the generator is free to fail or to
\* return any grid
Encode ==
    /\ pc = "ready"
    /\ encoder = "&q"
    /\ FreshCall
    /\ \E h \in HeaderLists, g \in Grids, genFails \in BOOLEAN :
          IF q.strFunc = "nil"
          THEN /\ err' = "encoder misconfigured"
               /\ code' = NoCode
               /\ headers' = h
               /\ pc' = "done"
          ELSE IF genFails
          THEN /\ err' = "generator"
               /\ code' = NoCode
               /\ headers' = h
               /\ pc' = "done"
          ELSE /\ err' = ""
               /\ code' = g
               /\ headers' = h
               /\ pc' = IF q.strFunc = "html" THEN "html" ELSE "text"
    /\ UNCHANGED encVars

hashead == Len(headers) > 0

\* lines 166-167: output += prefix; prefix = suffix + prefix
StartBody(out, pre, suf) ==
    /\ output' = out \o pre
    /\ prefix' = suf \o pre
    /\ suffix' = suf
    /\ y' = 0
    /\ pc' = "textRow"

\* text up to the call of wrap (with headers) or to the body loop (without)
TextBegin ==
    /\ pc = "text"
    /\ IF q.rc = "nil"
       THEN /\ err' = "encoder misconfigured"
            /\ output' = <<>>
            /\ pc' = "done"
            /\ UNCHANGED <<prefix, suffix, y, width, s>>
       ELSE LET wr == getRune(q.rc, "White", "White")
            IN  IF hashead
                THEN /\ output' = <<whole>> \o pad(code.dx + 2, upper) \o <<whole, NL>>
                     /\ width' = code.dx
                     /\ s' = headers
                     /\ pc' = "wrap"
                     /\ UNCHANGED <<err, prefix, suffix, y>>
                ELSE /\ StartBody(pad(code.dx + 2, wr) \o <<NL>>, <<wr>>, <<wr, NL>>)
                     /\ UNCHANGED <<err, width, s>>
    /\ UNCHANGED <<w, li, lines, line, b, i, j>>
    /\ UNCHANGED <<encVars, code, headers, reads, termS>>

\* one wrapped header line inside its frame
HeaderLine(v) ==
    <<whole, blank>> \o v \o pad(code.dx - Len(v) + 1, blank) \o <<whole, NL>>

RECURSIVE HeaderLines(_)
HeaderLines(ls) ==
    IF ls = <<>> THEN <<>> ELSE HeaderLine(Head(ls)) \o HeaderLines(Tail(ls))

\* text from the return of wrap to the body loop
TextHeader ==
    /\ pc = "wrapRet"
    /\ LET wr == getRune(q.rc, "White", "White")
       IN  StartBody(output \o HeaderLines(lines)
                         \o <<whole>> \o pad(code.dx + 2, lower) \o <<whole, NL>>
                         \o <<whole>> \o pad(code.dx + 2, wr) \o <<whole, NL>>,
                     <<whole, wr>>, <<wr, whole, NL>>)
    /\ UNCHANGED <<wrapVars, encVars, code, headers, err, reads, termS>>

\* the glyphs of one body row: top pixels from row yy, bottom pixels from
\* row yy + 1, or White when paired is FALSE
BodyRow(yy, paired) ==
    [k \in 1..code.dx |->
        getRune(q.rc, At(k - 1, yy), IF paired THEN At(k - 1, yy + 1) ELSE "White")]

RowReads(yy, paired) ==
    {<<x, yy>> : x \in 0..(code.dx - 1)}
        \cup (IF paired THEN {<<x, yy + 1>> : x \in 0..(code.dx - 1)} ELSE {})

\* one iteration of `for y = 0; y < dy-dy%2; y += 2`
TextRow ==
    /\ pc = "textRow"
    /\ y < code.dy - (code.dy % 2)
    /\ output' = output \o BodyRow(y, TRUE) \o prefix
    /\ reads' = reads \cup RowReads(y, TRUE)
    /\ y' = y + 2
    /\ UNCHANGED <<pc, wrapVars, encVars, code, headers, err, prefix, suffix, termS>>

\* text after the loop: the unpaired row or the trim, the closing line, and
\* the return to Encode or to the terminal closure
TextTail ==
    /\ pc = "textRow"
    /\ ~(y < code.dy - (code.dy % 2))
    /\ LET wr == getRune(q.rc, "White", "White")
           body == IF code.dy % 2 = 1
                   THEN output \o BodyRow(y, FALSE) \o suffix
                   ELSE TrimSuffix(output, prefix) \o suffix
       IN  output' = body \o pad(code.dx + (IF hashead THEN 4 ELSE 2), wr) \o <<NL>>
    /\ reads' = reads \cup (IF code.dy % 2 = 1 THEN RowReads(y, FALSE) ELSE {})
    /\ pc' = IF q.strFunc = "terminal" THEN "terminal" ELSE "done"
    /\ UNCHANGED <<wrapVars, encVars, code, headers, err, prefix, suffix, y, termS>>

front == <<"ESC[40;97m">>
back == <<"ESC[0m", NL>>

\* the closure without its final trim
TerminalWrapNoTrim(str) == front \o ReplaceAll(str, NL, back \o front)

\* what the terminal closure makes of the string text returned
TerminalWrap(str) ==
    front \o TrimSuffix(ReplaceAll(str, NL, back \o front), front)

Terminal ==
    /\ pc = "terminal"
    /\ termS' = output
    /\ output' = TerminalWrap(output)
    /\ pc' = "done"
    /\ UNCHANGED <<wrapVars, encVars, code, headers, err, prefix, suffix, y, reads>>

\* the HTML renderer; each tag is one element of the string
RECURSIVE HtmlHeaders(_)
HtmlHeaders(hs) ==
    IF hs = <<>> THEN <<>>
    ELSE <<"<p>">> \o Head(hs) \o <<"</p>", NL>> \o HtmlHeaders(Tail(hs))

HtmlCell(x, yy) ==
    IF At(x, yy) = "Black"
    THEN <<"<td class=qrstr-black></td>", NL>>
    ELSE <<"<td class=qrstr-white></td>", NL>>

RECURSIVE HtmlCells(_, _)
HtmlCells(x, yy) ==
    IF x >= code.dx THEN <<>> ELSE HtmlCell(x, yy) \o HtmlCells(x + 1, yy)

RECURSIVE HtmlRows(_)
HtmlRows(yy) ==
    IF yy >= code.dy THEN <<>>
    ELSE <<"<tr>", NL>> \o HtmlCells(0, yy) \o <<"</tr>", NL>> \o HtmlRows(yy + 1)

html ==
    /\ pc = "html"
    /\ output' = <<"<div>", NL, "<style>", NL>>
                    \o (IF hashead THEN HtmlHeaders(headers) \o <<"<hr>", NL>> ELSE <<>>)
                    \o <<"<table>", NL>> \o HtmlRows(0) \o <<"</table></div>", NL>>
    /\ reads' = (0..(code.dx - 1)) \X (0..(code.dy - 1))
    /\ pc' = "done"
    /\ UNCHANGED <<wrapVars, encVars, code, headers, err, prefix, suffix, y, termS>>

Init ==
    /\ pc = "start"
    /\ width = 0 /\ s = <<>> /\ w = 0 /\ li = 0 /\ lines = <<>>
    /\ line = <<>> /\ b = <<>> /\ i = 0 /\ j = 0
    /\ encoderType = 0 /\ errorCorrectionLevel = 0
    /\ q = ZeroEncoder /\ encoder = "nil" /\ newErr = "" /\ origin = "none"
    /\ code = NoCode /\ headers = <<>> /\ output = <<>> /\ err = ""
    /\ prefix = <<>> /\ suffix = <<>> /\ y = 0 /\ reads = {} /\ termS = <<>>

Next ==
    \/ NewEncoder
    \/ LiteralEncoder
    \/ Encode
    \/ TextBegin
    \/ WrapEnter
    \/ WrapLine
    \/ WrapWord
    \/ WrapSplitEnter
    \/ WrapSplit
    \/ WrapSplitExit
    \/ WrapReturn
    \/ TextHeader
    \/ TextRow
    \/ TextTail
    \/ Terminal
    \/ html

Spec == Init /\ [][Next]_vars

\* ---------------------------------------------- wrap exercised on its own
InitWrap ==
    /\ pc = "wrap"
    /\ width \in Widths
    /\ s \in ListsUpTo(WrapAlphabet, MaxWrapBytes)
    /\ w = 0
    /\ li = 0
    /\ lines = <<>>
    /\ line = <<>>
    /\ b = <<>>
    /\ i = 0
    /\ j = 0
    /\ encoderType = 0 /\ errorCorrectionLevel = 0
    /\ q = ZeroEncoder /\ encoder = "nil" /\ newErr = "" /\ origin = "none"
    /\ code = NoCode /\ headers = <<>> /\ output = <<>> /\ err = ""
    /\ prefix = <<>> /\ suffix = <<>> /\ y = 0 /\ reads = {} /\ termS = <<>>

NextWrap ==
    \/ WrapEnter
    \/ WrapLine
    \/ WrapWord
    \/ WrapSplitEnter
    \/ WrapSplit
    \/ WrapSplitExit
    \/ WrapReturn

SpecWrap == InitWrap /\ [][NextWrap]_vars

\* ------------------------------------------------------------ properties
\* the output lines of str: the text before each newline
OutLines(str) == SubSeq(Split(str, NL), 1, Len(Split(str, NL)) - 1)

\* the number of newlines of str
NumLines(str) == Len(SelectSeq(str, LAMBDA c : c = NL))

RECURSIVE Flatten(_)
Flatten(ls) == IF ls = <<>> THEN <<>> ELSE Head(ls) \o Flatten(Tail(ls))

\* the letters of a list of lines, in order, without spaces and hyphens
Letters(ls) == SelectSeq(Flatten(ls), LAMBDA c : c \notin {" ", "-"})

IsChunk(l) == Len(l) > 0 /\ l[Len(l)] = "-"

CeilHalf(n) == (n + 1) \div 2

\* text has returned a string: to Encode, or to the terminal closure
TextReturned ==
    /\ err = ""
    /\ \/ pc = "terminal"
       \/ pc = "done" /\ q.strFunc \in {"text", "terminal"}

\* the string text returned
TextOut == IF pc = "done" /\ q.strFunc = "terminal" THEN termS ELSE output

\* the output lines before the first body row, the glyphs before its first
\* column
BodyFirst == IF hashead THEN Len(lines) + 3 ELSE 1
BodyLeft == IF hashead THEN 2 ELSE 1

\* C1: the glyph at column x of body row k is the palette entry of index
\* (grid(x,2k) = Black ? 1 : 0) + (grid(x,2k+1) = Black ? 2 : 0), with White
\* for the missing partner of the last row of a grid of odd height, and no
\* pixel outside the grid is read
InvC1 ==
    /\ reads \subseteq (0..(code.dx - 1)) \X (0..(code.dy - 1))
    /\ TextReturned =>
         LET L == OutLines(TextOut)
         IN  /\ Len(L) >= BodyFirst + CeilHalf(code.dy)
             /\ \A k \in 0..(CeilHalf(code.dy) - 1), x \in 0..(code.dx - 1) :
                   /\ Len(L[BodyFirst + k + 1]) >= BodyLeft + x + 1
                   /\ L[BodyFirst + k + 1][BodyLeft + x + 1] =
                        Palette(q.rc)[
                            (IF code.px[<<x, 2 * k>>] = "Black" THEN 1 ELSE 0)
                          + (IF 2 * k + 1 < code.dy /\ code.px[<<x, 2 * k + 1>>] = "Black"
                             THEN 2 ELSE 0) + 1]

WitC1 ==
    /\ TextReturned
    /\ code.dy = 3
    /\ code.px[<<0, 0>>] = "Black" /\ code.px[<<0, 1>>] = "White"
    /\ code.px[<<0, 2>>] = "Black"
    /\ q.rc = "lightMode"

\* C2: the text renderer's output has ceil(dy/2) + 2 lines without headers
\* and ceil(dy/2) + 4 + len(wrap(dx, headers)) lines with headers
InvC2 ==
    TextReturned =>
        /\ hashead => width = code.dx /\ s = headers
        /\ NumLines(TextOut) =
              CeilHalf(code.dy) + (IF hashead THEN 4 + Len(lines) ELSE 2)

WitC2 ==
    /\ TextReturned
    /\ hashead
    /\ Len(lines) = 2
    /\ code.dy = 2

\* C3: NewEncoder fails exactly when the type is not one of the four modes
\* or the level is outside 0..3; otherwise the encoder has its render
\* function (and its palette unless HTML), and Encode on it never returns
\* the misconfigured-encoder error
InvC3 ==
    origin = "factory" =>
        /\ (newErr # "") <=>
              (\/ encoderType \notin {TextDarkMode, TextLightMode, HTMLMode, TerminalMode}
               \/ errorCorrectionLevel \notin 0..3)
        /\ (newErr # "") <=> (encoder = "nil")
        /\ encoder = "&q" =>
              /\ q.strFunc # "nil"
              /\ encoderType # HTMLMode => q.rc # "nil"
              /\ q.errCorr = errorCorrectionLevel
        /\ err # "encoder misconfigured"

WitC3 ==
    /\ origin = "factory"
    /\ encoderType = TerminalMode
    /\ errorCorrectionLevel = 3
    /\ pc = "done"
    /\ err = ""

\* str without its escape sequences
Strip(str) == SelectSeq(str, LAMBDA c : c \notin {front[1], back[1]})

\* C4: the terminal renderer's output without its escape sequences is the
\* dark-mode text rendering, and it ends with the reset sequence and a
\* newline, no colour sequence left dangling
InvC4 ==
    (pc = "done" /\ q.strFunc = "terminal" /\ err = "") =>
        /\ q.rc = "darkMode"
        /\ Strip(output) = termS
        /\ HasSuffix(output, back)
        /\ ~HasSuffix(output, front)
        /\ NumLines(output) = NumLines(termS)

WitC4 ==
    /\ pc = "done" /\ q.strFunc = "terminal" /\ err = ""
    /\ hashead
    /\ code.dy = 2
    /\ Len(output) > Len(termS)

LightNoHeader ==
    TextReturned /\ q.strFunc = "text" /\ q.rc = "lightMode" /\ ~hashead

\* C5 as amended: in light mode without headers the first and the last
\* output line are each exactly dx+2 whitespace-palette glyphs, with no
\* full-block corner, and exactly ceil(dy/2) body rows lie between them
InvC5 ==
    LightNoHeader =>
        LET L == OutLines(output)
            wr == lightMode[1]
        IN  /\ Len(L) = CeilHalf(code.dy) + 2
            /\ L[1] = Repeat(wr, code.dx + 2)
            /\ L[Len(L)] = Repeat(wr, code.dx + 2)
            /\ \A k \in 2..(Len(L) - 1) :
                  /\ Len(L[k]) = code.dx + 2
                  /\ L[k][1] = wr
                  /\ L[k][code.dx + 2] = wr

WitC5 ==
    /\ LightNoHeader
    /\ code.dy = 3
    /\ code.dx = 1

\* a border line bounded by full-block corners
Cornered(l, wr) ==
    /\ Len(l) >= 2
    /\ l[1] = whole
    /\ l[Len(l)] = whole
    /\ \A k \in 2..(Len(l) - 1) : l[k] = wr

\* C5: in light mode without headers the first and the last output line are
\* border lines of whitespace-palette glyphs bounded by full-block corners,
\* with exactly ceil(dy/2) body rows between them
CexC5 ==
    LightNoHeader =>
        LET L == OutLines(output)
        IN  /\ Len(L) = CeilHalf(code.dy) + 2
            /\ Cornered(L[1], lightMode[1])
            /\ Cornered(L[Len(L)], lightMode[1])

\* C6: wrap(width, [line]) with len(line) < width returns [line], and
\* wrap(width, []) returns the empty sequence
CexC6 ==
    pc = "wrapRet" =>
        /\ s = <<>> => lines = <<>>
        /\ (Len(s) = 1 /\ Len(s[1]) < width) => lines = s

CexC8 ==
    pc = "wrapRet" => Letters(lines) = Letters(s)

\* C9: the accumulator is empty when the next input line starts and when
\* wrap returns: nothing carries over a line boundary, nothing is left
\* unemitted
CexC9 ==
    pc \in {"wrapLine", "wrapRet"} => line = <<>>

\* C10: wrap terminates; every iteration of the hard-split loop advances
\* its position by a strictly positive amount
CexC10 ==
    [][(pc = "wrapSplit" /\ j < Len(b[i])) => j' > j]_vars

=============================================================================
